---- MODULE Spec2Model ----
\* Task list of todo-wo-tracker: due-date buckets, staged due edits, pinning,
\* rollover prune.  Two implementations of the TodoList component are modelled:
\*   impl = "A"  src/src/components/ui/DayCard.tsx lines 47-618  (window.localStorage, ref pin)
\*   impl = "B"  src/unnamed/part_003 lines 215-1343             (../lib/storage, state pin)
\* A Date object is modelled by its local calendar day, a day number counted
\* from Epoch (a Sunday); an ISO date string "YYYY-MM-DD" by the triple <<y, m, d>>.
EXTENDS Integers, Sequences, FiniteSets, TLC

VARIABLES
    impl,         \* which TodoList implementation runs
    now,          \* the clock: local calendar day of new Date()
    mounted,      \* the TodoList component is mounted
    tasks,        \* useState<Task[]>: the collection
    pinned,       \* pinnedNewIdRef.current (A) / pinnedNewId (B)
    editingId,    \* useState editingId
    timerArmed,   \* the one-shot midnight setTimeout is pending
    timerDay,     \* the day at whose start (00:00:00.050) the timer is due
    lsTasks,      \* localStorage "tasks"
    lsLastClean,  \* localStorage "lastCleanupISO"
    lastOp,       \* the event handled last (history, read by no handler)
    removed,      \* ids filtered out by the last handler (history, read by no handler)
    shown,        \* the rendered list: groups in header order, rows in order
    cap,          \* most records this behaviour lets the collection hold (bounds the exploration)
    steps,        \* user events and day changes so far (bounds the exploration)
    qDate,        \* resolver: the stored due date being keyed (or none)
    qKey,         \* resolver: the key computeKeyForISO returned for qDate last
    qOpts,        \* resolver: the options buildDueOptions returned last
    qText,        \* normalizer: the text being normalized
    qNorm,        \* normalizer: what toISOIfPossible returned for qText last
    woMounted,    \* WOList is mounted
    woItems,      \* WOList useState items
    lsWO,         \* localStorage "todo-lite.workorders.v1"
    woWritten,    \* history: ids whose urgency the last step wrote
    woError,      \* an exception escaped the persist effect and took the list down
    storeFails,   \* localStorage.setItem throws (quota exceeded, storage disabled)
    taskQueue,    \* updaters passed to setTasks that React has not run yet
    woQueue       \* updaters passed to setItems that React has not run yet

vars == <<impl, now, mounted, tasks, pinned, editingId, timerArmed, timerDay, lsTasks, lsLastClean, lastOp, removed, shown, cap, steps,
          qDate, qKey, qOpts, qText, qNorm, woMounted, woItems, lsWO, woWritten, woError, storeFails,
          taskQueue, woQueue>>

\* the variables of the task list, of the resolver and of the work-order list
todoVars == <<impl, mounted, tasks, pinned, editingId, timerArmed, timerDay, lsTasks, lsLastClean, removed, shown, cap>>
resolverVars == <<qDate, qKey, qOpts, qText, qNorm>>
woVars == <<woMounted, woItems, lsWO, woWritten, woError>>
envVars == <<storeFails>>
queueVars == <<taskQueue, woQueue>>

\* ---------------------------------------------------------------- bounds
\* last clock day the model lets the clock reach
MaxDay == 9
\* most records the collection holds at once
MaxTasks == 2
\* most user events and day changes of one behaviour
MaxSteps == 3

\* most records of a collection the ordering is explored from
MaxOrd == 3

\* most work orders the list holds at once
MaxWO == 2
\* last clock day of a work-order behaviour
WOMaxDay == 2

\* the days on which a behaviour may start: a Sunday and a Wednesday
StartDays == {0, 3}

\* ---------------------------------------------------------------- calendar
\* day 0 of the model, a Sunday
Epoch == <<2025, 12, 21>>
NoISO == <<>>
NoId == 0
\* no text under normalization, no result yet
NoText == [form |-> "none"]
NoNorm == [valid |-> FALSE, iso |-> <<>>]

IsLeap(y) == (y % 4 = 0 /\ y % 100 # 0) \/ y % 400 = 0

DaysInMonth(y, m) ==
    IF m = 2 THEN (IF IsLeap(y) THEN 29 ELSE 28)
    ELSE IF m \in {4, 6, 9, 11} THEN 30 ELSE 31

\* Date arithmetic normalises an overflowing day of month into the next month / year
NextISO(iso) ==
    IF iso[3] < DaysInMonth(iso[1], iso[2]) THEN <<iso[1], iso[2], iso[3] + 1>>
    ELSE IF iso[2] < 12 THEN <<iso[1], iso[2] + 1, 1>>
    ELSE <<iso[1] + 1, 1, 1>>

\* every date the model can name: up to a week after the last clock day
LastDate == MaxDay + 7

RECURSIVE CivilFrom(_)
CivilFrom(n) == IF n = 0 THEN Epoch ELSE NextISO(CivilFrom(n - 1))

CivilTable == [n \in 0..LastDate |-> CivilFrom(n)]

startOfDay(d) == d
addDays(d, n) == d + n
\* getFullYear / getMonth()+1 / getDate, zero padded
toISODate(d) == CivilTable[d]
\* Date.getDay(): 0 Sun .. 6 Sat
getDay(d) == d % 7
\* new Date(iso + "T00:00:00")
parseISO(iso) == CHOOSE n \in 0..LastDate : CivilTable[n] = iso

WeekdayNames == <<"Sunday", "Monday", "Tuesday", "Wednesday", "Thursday", "Friday", "Saturday">>
weekdayName(d) == WeekdayNames[getDay(d) + 1]

\* string comparison a >= b of two zero-padded "YYYY-MM-DD" strings
ISOGeq(a, b) ==
    \/ a[1] > b[1]
    \/ a[1] = b[1] /\ a[2] > b[2]
    \/ a[1] = b[1] /\ a[2] = b[2] /\ a[3] >= b[3]

\* ---------------------------------------------------------------- resolver
fmtMDY(d) == <<toISODate(d)[2], toISODate(d)[3], toISODate(d)[1] % 100>>

\* (1 + 7 - dow) % 7 || 1
nextMondayDelta(dow) == IF (1 + 7 - dow) % 7 = 0 THEN 1 ELSE (1 + 7 - dow) % 7

nextMondayFrom(d) == addDays(d, nextMondayDelta(getDay(d)))

\* a due key: "today" | "tomorrow" | "next-mon" | "wd-YYYY-MM-DD" | null
Key(kind, iso) == [kind |-> kind, iso |-> iso]
NoKey == Key("null", NoISO)
KeyToday == Key("today", NoISO)
KeyTomorrow == Key("tomorrow", NoISO)
KeyNextMon == Key("next-mon", NoISO)
KeyWd(iso) == Key("wd", iso)

\* a resolver whose weekday key drops the literal date
computeKeyForISONoDate(iso, clock) ==
    IF iso = NoISO THEN KeyToday
    ELSE IF iso = toISODate(startOfDay(clock)) THEN KeyToday
    ELSE IF iso = toISODate(addDays(startOfDay(clock), 1)) THEN KeyTomorrow
    ELSE IF iso = toISODate(nextMondayFrom(startOfDay(clock))) THEN KeyNextMon
    ELSE KeyWd(<<getDay(parseISO(iso))>>)

computeKeyForISO(iso, clock) ==
    IF iso = NoISO THEN KeyToday
    ELSE IF iso = toISODate(startOfDay(clock)) THEN KeyToday
    ELSE IF iso = toISODate(addDays(startOfDay(clock), 1)) THEN KeyTomorrow
    ELSE IF iso = toISODate(nextMondayFrom(startOfDay(clock))) THEN KeyNextMon
    ELSE KeyWd(iso)

computeGroupLabelForISO(iso, clock) ==
    IF iso = NoISO THEN "No Date"
    ELSE IF iso = toISODate(startOfDay(clock)) THEN "Today"
    ELSE IF iso = toISODate(addDays(startOfDay(clock), 1)) THEN "Tomorrow"
    ELSE IF iso = toISODate(nextMondayFrom(startOfDay(clock))) THEN "Next Monday"
    ELSE weekdayName(parseISO(iso))

Opt(key, base, d) == [key |-> key, label |-> <<base, fmtMDY(d)>>, iso |-> toISODate(d)]

\* a loop that stops before Friday
RECURSIVE WeekdayOptsBeforeFri(_)
WeekdayOptsBeforeFri(cursor) ==
    IF getDay(cursor) < 5
    THEN <<Opt(KeyWd(toISODate(cursor)), weekdayName(cursor), cursor)>> \o WeekdayOptsBeforeFri(addDays(cursor, 1))
    ELSE <<>>

\* while (cursor.getDay() <= 5) { push; cursor = addDays(cursor, 1) }
RECURSIVE WeekdayOpts(_)
WeekdayOpts(cursor) ==
    IF getDay(cursor) <= 5
    THEN <<Opt(KeyWd(toISODate(cursor)), weekdayName(cursor), cursor)>> \o WeekdayOpts(addDays(cursor, 1))
    ELSE <<>>

\* a builder without the early return of Friday, Saturday and Sunday
buildDueOptionsEveryDay(clock) ==
    LET today == startOfDay(clock)
    IN  <<Opt(KeyToday, "Today", today), Opt(KeyTomorrow, "Tomorrow", addDays(today, 1))>>
            \o WeekdayOpts(addDays(today, 2))
            \o <<Opt(KeyNextMon, "Next Monday", nextMondayFrom(today))>>

buildDueOptions(clock) ==
    LET today == startOfDay(clock)
        dow == getDay(today)
        todayOpt == <<Opt(KeyToday, "Today", today)>>
        nextMonOpt == <<Opt(KeyNextMon, "Next Monday", nextMondayFrom(today))>>
    IN  IF dow = 5 \/ dow = 6 \/ dow = 0
        THEN todayOpt \o nextMonOpt
        ELSE todayOpt \o <<Opt(KeyTomorrow, "Tomorrow", addDays(today, 1))>>
                   \o WeekdayOpts(addDays(today, 2)) \o nextMonOpt

\* buildDueOptions().find((o) => o.key === key) || buildDueOptions()[0]
findOption(key, clock) ==
    LET opts == buildDueOptions(clock)
        hits == {i \in 1..Len(opts) : opts[i].key = key}
    IN  IF hits = {} THEN opts[1]
        ELSE opts[CHOOSE i \in hits : \A j \in hits : i <= j]

OptionKeys(clock) == {buildDueOptions(clock)[i].key : i \in 1..Len(buildDueOptions(clock))}

\* ---------------------------------------------------------------- records
Priorities == {"high", "medium", "low"}

\* crypto.randomUUID(): an id no live record and no id-holding state uses
IdPool == 1..(MaxTasks + MaxOrd)
IdsOf(ts) == {ts[i].id : i \in 1..Len(ts)}
FreshId(used) == CHOOSE i \in IdPool \ used : \A j \in IdPool \ used : i <= j

makeTask(id, priority, clock) ==
    [id |-> id, done |-> FALSE, priority |-> priority,
     dueKey |-> KeyToday, dueISO |-> toISODate(startOfDay(clock)),
     pendingDueKey |-> NoKey, pendingDueISO |-> NoISO, expanded |-> TRUE]

TaskOf(ts, id) == ts[CHOOSE i \in 1..Len(ts) : ts[i].id = id]

\* x.pendingDueISO ?? x.dueISO ?? null
Coalesce(a, b) == IF a # NoISO THEN a ELSE b

\* ---------------------------------------------------------------- storage
\* a localStorage item: absent (getItem returns null) or a JSON text
NoItem == [present |-> FALSE, kind |-> "none", text |-> <<>>]
\* a stored string that is no JSON, and one that is JSON but no array
Garbage == [present |-> TRUE, kind |-> "garbage", text |-> <<>>]
NotArray == [present |-> TRUE, kind |-> "other", text |-> <<>>]

\* setItem inside try / catch: a failing write leaves the stored value
afterWrite(old, new) == IF storeFails THEN old ELSE new

\* JSON value of an optional field: null, or the string it holds
JNull == [t |-> "null"]
JStr(v) == [t |-> "str", v |-> v]
toJSON(v, none) == IF v = none THEN JNull ELSE JStr(v)
fromJSON(j, none) == IF j.t = "null" THEN none ELSE j.v

\* JSON.stringify(tasks)
stringify(ts) ==
    [i \in 1..Len(ts) |->
        [ts[i] EXCEPT !.dueKey = toJSON(@, NoKey),
                      !.dueISO = toJSON(@, NoISO),
                      !.pendingDueKey = toJSON(@, NoKey),
                      !.pendingDueISO = toJSON(@, NoISO)]]

\* JSON.parse(raw)
parse(text) ==
    [i \in 1..Len(text) |->
        [text[i] EXCEPT !.dueKey = fromJSON(@, NoKey),
                        !.dueISO = fromJSON(@, NoISO),
                        !.pendingDueKey = fromJSON(@, NoKey),
                        !.pendingDueISO = fromJSON(@, NoISO)]]

\* window.localStorage.setItem(LS_KEY, JSON.stringify(tasks))
saveTasks(ts) == [present |-> TRUE, kind |-> "list", text |-> stringify(ts)]

\* if (!raw) return []; JSON.parse(raw) if it is an array; [] if it is not or if it throws
loadTasks(raw) == IF raw.present /\ raw.kind = "list" THEN parse(raw.text) ELSE <<>>

\* load("tasks", []) / save("tasks", tasks) of ../lib/storage: the persistence
\* provider returns the previously saved value or the default
load(raw) == loadTasks(raw)
save(ts) == saveTasks(ts)

\* load<any[]>("tasks", []) followed by the legacy migration: a record with a
\* dueKey or a dueISO is returned as is, one with neither (and no legacy label)
\* gets dueISO = null and dueKey = null
migrate(raw) ==
    [i \in 1..Len(raw) |->
        IF raw[i].dueKey # NoKey \/ raw[i].dueISO # NoISO THEN raw[i]
        ELSE [raw[i] EXCEPT !.dueISO = NoISO, !.dueKey = NoKey]]

\* useState initialiser
initialTasks(which, raw, clock) ==
    IF which = "A"
    THEN IF Len(loadTasks(raw)) # 0 THEN loadTasks(raw)
         ELSE <<makeTask(1, "high", clock), makeTask(2, "medium", clock)>>
    ELSE migrate(load(raw))

\* ---------------------------------------------------------------- prune
\* a filter that also drops the done records due today
keepOnCleanupStrict(t, todayIso) ==
    IF ~t.done THEN TRUE
    ELSE IF t.dueISO = NoISO THEN TRUE
    ELSE ISOGeq(t.dueISO, todayIso) /\ t.dueISO # todayIso

\* prev.filter(t => !t.done || !t.dueISO || t.dueISO >= todayIso)
keepOnCleanup(t, todayIso) ==
    IF ~t.done THEN TRUE
    ELSE IF t.dueISO = NoISO THEN TRUE
    ELSE ISOGeq(t.dueISO, todayIso)

cleanupDoneBeforeToday(ts, clock) ==
    SelectSeq(ts, LAMBDA t : keepOnCleanup(t, toISODate(startOfDay(clock))))

\* ---------------------------------------------------------------- commit
\* an edit end that drops the staged date instead of committing it
commitDueDropsPending(x, clock) ==
    [x EXCEPT !.dueKey = computeKeyForISO(x.dueISO, clock),
              !.pendingDueISO = NoISO,
              !.pendingDueKey = NoKey]

\* the record update of endRowEditing (A) / onUnpin (B)
commitDue(x, clock) ==
    [x EXCEPT !.dueISO = Coalesce(x.pendingDueISO, x.dueISO),
              !.dueKey = computeKeyForISO(Coalesce(x.pendingDueISO, x.dueISO), clock),
              !.pendingDueISO = NoISO,
              !.pendingDueKey = NoKey]

commitPinned(ts, id, clock) ==
    [i \in 1..Len(ts) |-> IF ts[i].id # id THEN ts[i] ELSE commitDue(ts[i], clock)]

\* the record update of stageDueFor (A) / onChangeDue (B)
stageDue(x, key, clock) ==
    [x EXCEPT !.pendingDueKey = findOption(key, clock).key,
              !.pendingDueISO = findOption(key, clock).iso]

\* ---------------------------------------------------------------- rendering
\* the date a record is grouped by: A groups by pendingDueISO ?? dueISO, B by dueISO
groupISO(which, t) == IF which = "A" THEN Coalesce(t.pendingDueISO, t.dueISO) ELSE t.dueISO

groupLabelOf(which, t, clock) == computeGroupLabelForISO(groupISO(which, t), clock)

\* ---------------------------------------------------------------- ordering
\* priorityRank[p] ?? 99
priorityRank(p) ==
    CASE p = "high" -> 0
      [] p = "medium" -> 1
      [] p = "low" -> 2
      [] OTHER -> 99

\* indexMap.get(id) ?? 0, indexMap built from the whole collection
indexIn(ts, id) ==
    IF \E i \in 1..Len(ts) : ts[i].id = id
    THEN (CHOOSE i \in 1..Len(ts) : ts[i].id = id) - 1
    ELSE 0

\* the sort comparator: negative when a goes before b
compare(a, b, ts) ==
    IF priorityRank(a.priority) # priorityRank(b.priority)
    THEN priorityRank(a.priority) - priorityRank(b.priority)
    ELSE indexIn(ts, a.id) - indexIn(ts, b.id)

\* a comparator that never reports a tie and puts the later of two equal ranks first
RECURSIVE sortTiesReversed(_, _)
sortTiesReversed(items, ts) ==
    IF items = <<>> THEN <<>>
    ELSE LET rest == sortTiesReversed(Tail(items), ts)
             x == Head(items)
             ahead == SelectSeq(rest, LAMBDA y : priorityRank(y.priority) <= priorityRank(x.priority))
             behind == SelectSeq(rest, LAMBDA y : priorityRank(y.priority) > priorityRank(x.priority))
         IN  ahead \o <<x>> \o behind

\* a selection sort on the rank alone: it swaps the first smallest rank to the front
RECURSIVE sortBySelection(_, _)
sortBySelection(items, ts) ==
    IF Len(items) <= 1 THEN items
    ELSE LET m == CHOOSE i \in 1..Len(items) :
                     /\ \A j \in 1..Len(items) : priorityRank(items[i].priority) <= priorityRank(items[j].priority)
                     /\ \A j \in 1..(i - 1) : priorityRank(items[j].priority) > priorityRank(items[i].priority)
             swapped == [items EXCEPT ![1] = items[m], ![m] = items[1]]
         IN  <<swapped[1]>> \o sortBySelection(Tail(swapped), ts)

\* Array.prototype.sort (stable) with the comparator: x goes before the first
\* element it does not follow
RECURSIVE insertSorted(_, _, _)
insertSorted(x, sorted, ts) ==
    IF sorted = <<>> THEN <<x>>
    ELSE IF compare(x, Head(sorted), ts) <= 0 THEN <<x>> \o sorted
    ELSE <<Head(sorted)>> \o insertSorted(x, Tail(sorted), ts)

RECURSIVE sortByPriorityStable(_, _)
sortByPriorityStable(items, ts) ==
    IF items = <<>> THEN <<>>
    ELSE insertSorted(Head(items), sortByPriorityStable(Tail(items), ts), ts)

\* a pin that puts the pinned record first and leaves its sorted row in place
pinFirstKeepsRow(items, ordered, pin) ==
    IF pin # NoId /\ \E i \in 1..Len(items) : items[i].id = pin
    THEN <<TaskOf(items, pin)>> \o ordered
    ELSE ordered

\* the pinned row first, when the group has it
pinFirst(items, ordered, pin) ==
    IF pin # NoId /\ \E i \in 1..Len(items) : items[i].id = pin
    THEN <<TaskOf(items, pin)>> \o SelectSeq(ordered, LAMBDA x : x.id # pin)
    ELSE ordered

\* an ordering that sorts the Today group like every other group
orderRowsNoPartition(items, ts, pin, label) ==
    pinFirst(items, sortByPriorityStable(items, ts), pin)

\* the ordering of one group's items
orderRows(items, ts, pin, label) ==
    pinFirst(items,
             IF label = "Today"
             THEN sortByPriorityStable(SelectSeq(items, LAMBDA x : ~x.done), ts)
                  \o sortByPriorityStable(SelectSeq(items, LAMBDA x : x.done), ts)
             ELSE sortByPriorityStable(items, ts),
             pin)

\* by[label]: the records of a group, in collection order
groupItems(which, ts, label, clock) ==
    SelectSeq(ts, LAMBDA t : groupLabelOf(which, t, clock) = label)

\* the fixed header order; every label the model can produce is in it
OrderLabels ==
    <<"Today", "Tomorrow", "Monday", "Tuesday", "Wednesday", "Thursday", "Friday",
      "Saturday", "Sunday", "Next Monday", "No Date">>

\* the React keys of a row sequence
idsIn(rows) == [j \in 1..Len(rows) |-> rows[j].id]

\* the rendered list: the non-empty groups in header order, each with its rows in order
render(which, ts, pin, clock) ==
    LET present == {groupLabelOf(which, ts[i], clock) : i \in 1..Len(ts)}
        labels == SelectSeq(OrderLabels, LAMBDA l : l \in present)
    IN  [i \in 1..Len(labels) |->
            [label |-> labels[i],
             rows |-> idsIn(orderRows(groupItems(which, ts, labels[i], clock), ts, pin, labels[i]))]]

\* ---------------------------------------------------------------- state machine
Init ==
    /\ impl \in {"A", "B"}
    /\ now \in StartDays
    /\ mounted = FALSE
    /\ tasks = <<>>
    /\ pinned = NoId
    /\ editingId = NoId
    /\ timerArmed = FALSE
    /\ timerDay = 0
    /\ lsTasks = NoItem
    /\ lsLastClean = NoISO
    /\ lastOp = "init"
    /\ storeFails = FALSE
    /\ taskQueue = <<>>
    /\ woQueue = <<>>
    /\ removed = {}
    /\ shown = <<>>
    /\ cap = MaxTasks
    /\ steps = 0
    /\ qDate = NoISO
    /\ qKey = NoKey
    /\ qOpts = <<>>
    /\ qText = NoText
    /\ qNorm = NoNorm
    /\ woMounted = FALSE
    /\ woItems = <<>>
    /\ lsWO = NoItem
    /\ woWritten = {}
    /\ woError = FALSE

\* one more user event or day change; mounting and the timer callback are
\* reactions to them and are not counted
Step == steps < MaxSteps /\ steps' = steps + 1

\* a mount whose cleanup does not consult the stamp
MountAlwaysCleans ==
    /\ lastOp' = "Mount"
    /\ UNCHANGED <<resolverVars, woVars, envVars, queueVars, cap>>
    /\ ~mounted
    /\ UNCHANGED steps
    /\ mounted' = TRUE
    /\ tasks' = cleanupDoneBeforeToday(initialTasks(impl, lsTasks, now), now)
    /\ lsLastClean' = afterWrite(lsLastClean, toISODate(startOfDay(now)))
    /\ removed' = IdsOf(initialTasks(impl, lsTasks, now)) \ IdsOf(tasks')
    /\ lsTasks' = afterWrite(lsTasks, IF impl = "A" THEN saveTasks(tasks') ELSE save(tasks'))
    /\ pinned' = NoId
    /\ editingId' = NoId
    /\ timerArmed' = TRUE
    /\ timerDay' = now + 1
    /\ UNCHANGED <<impl, now>>
    /\ shown' = render(impl, tasks', pinned', now)

\* component mount: state initialiser, persist effect, one-time cleanup effect,
\* midnight timer effect
Mount ==
    /\ lastOp' = "Mount"
    /\ UNCHANGED <<resolverVars, woVars, envVars, queueVars, cap>>
    /\ ~mounted
    /\ UNCHANGED steps
    /\ mounted' = TRUE
    /\ LET t0 == initialTasks(impl, lsTasks, now)
       IN  IF lsLastClean # toISODate(startOfDay(now))
           THEN /\ tasks' = cleanupDoneBeforeToday(t0, now)
                /\ lsLastClean' = afterWrite(lsLastClean, toISODate(startOfDay(now)))
           ELSE /\ tasks' = t0
                /\ lsLastClean' = lsLastClean
    /\ removed' = IdsOf(initialTasks(impl, lsTasks, now)) \ IdsOf(tasks')
    /\ lsTasks' = afterWrite(lsTasks, IF impl = "A" THEN saveTasks(tasks') ELSE save(tasks'))
    /\ pinned' = NoId
    /\ editingId' = NoId
    /\ timerArmed' = TRUE
    /\ timerDay' = now + 1
    /\ UNCHANGED <<impl, now>>
    /\ shown' = render(impl, tasks', pinned', now)

\* component unmount (tab switch, page close): effect cleanups run, state is dropped
Unmount ==
    /\ lastOp' = "Unmount"
    /\ UNCHANGED <<resolverVars, woVars, envVars, queueVars, cap>>
    /\ removed' = {}
    /\ mounted
    /\ Step
    /\ mounted' = FALSE
    /\ tasks' = <<>>
    /\ pinned' = NoId
    /\ editingId' = NoId
    /\ timerArmed' = FALSE
    /\ timerDay' = 0
    /\ UNCHANGED <<impl, now, lsTasks, lsLastClean>>
    /\ shown' = <<>>

\* local midnight passes
Tick ==
    /\ lastOp' = "Tick"
    /\ UNCHANGED <<resolverVars, woVars, envVars, queueVars, cap>>
    /\ removed' = {}
    /\ now < MaxDay
    /\ Step
    /\ now' = now + 1
    /\ UNCHANGED <<impl, mounted, tasks, pinned, editingId, timerArmed, timerDay, lsTasks, lsLastClean>>
    /\ UNCHANGED shown

\* the setTimeout callback of the midnight effect
MidnightTick ==
    /\ lastOp' = "MidnightTick"
    /\ UNCHANGED <<resolverVars, woVars, envVars, queueVars, cap>>
    /\ mounted
    /\ UNCHANGED steps
    /\ timerArmed
    /\ now >= timerDay
    /\ tasks' = cleanupDoneBeforeToday(tasks, now)
    /\ lsLastClean' = afterWrite(lsLastClean, toISODate(startOfDay(now)))
    /\ removed' = IdsOf(tasks) \ IdsOf(tasks')
    /\ lsTasks' = afterWrite(lsTasks, IF impl = "A" THEN saveTasks(tasks') ELSE save(tasks'))
    /\ timerArmed' = FALSE
    /\ timerDay' = 0
    /\ UNCHANGED <<impl, now, mounted, pinned, editingId>>
    /\ shown' = render(impl, tasks', pinned', now)

\* an add that puts the new record at the end of the collection
addInlineTaskAtEnd ==
    /\ lastOp' = "addInlineTask"
    /\ UNCHANGED <<resolverVars, woVars, envVars, queueVars, cap>>
    /\ removed' = {}
    /\ mounted
    /\ Step
    /\ Len(tasks) < cap
    /\ LET t == makeTask(FreshId(IdsOf(tasks) \cup {pinned, editingId}), "high", now)
       IN  /\ pinned' = t.id
           /\ tasks' = tasks \o <<t>>
           /\ editingId' = t.id
    /\ lsTasks' = afterWrite(lsTasks, IF impl = "A" THEN saveTasks(tasks') ELSE save(tasks'))
    /\ UNCHANGED <<impl, now, mounted, timerArmed, timerDay, lsLastClean>>
    /\ shown' = render(impl, tasks', pinned', now)

addInlineTask ==
    /\ lastOp' = "addInlineTask"
    /\ UNCHANGED <<resolverVars, woVars, envVars, queueVars, cap>>
    /\ removed' = {}
    /\ mounted
    /\ Step
    /\ Len(tasks) < cap
    /\ LET t == makeTask(FreshId(IdsOf(tasks) \cup {pinned, editingId}), "high", now)
       IN  /\ pinned' = t.id
           /\ tasks' = <<t>> \o tasks
           /\ editingId' = t.id
    /\ lsTasks' = afterWrite(lsTasks, IF impl = "A" THEN saveTasks(tasks') ELSE save(tasks'))
    /\ UNCHANGED <<impl, now, mounted, timerArmed, timerDay, lsLastClean>>
    /\ shown' = render(impl, tasks', pinned', now)

toggleDone(id) ==
    /\ lastOp' = "toggleDone"
    /\ UNCHANGED <<resolverVars, woVars, envVars, queueVars, cap>>
    /\ removed' = {}
    /\ mounted
    /\ Step
    /\ tasks' = [i \in 1..Len(tasks) |->
                    IF tasks[i].id = id THEN [tasks[i] EXCEPT !.done = ~tasks[i].done] ELSE tasks[i]]
    /\ lsTasks' = afterWrite(lsTasks, IF impl = "A" THEN saveTasks(tasks') ELSE save(tasks'))
    /\ UNCHANGED <<impl, now, mounted, pinned, editingId, timerArmed, timerDay, lsLastClean>>
    /\ shown' = render(impl, tasks', pinned', now)

\* B only: the Hide / Show button
toggleExpanded(id) ==
    /\ lastOp' = "toggleExpanded"
    /\ UNCHANGED <<resolverVars, woVars, envVars, queueVars, cap>>
    /\ removed' = {}
    /\ mounted
    /\ Step
    /\ impl = "B"
    /\ tasks' = [i \in 1..Len(tasks) |->
                    IF tasks[i].id = id THEN [tasks[i] EXCEPT !.expanded = ~tasks[i].expanded] ELSE tasks[i]]
    /\ lsTasks' = afterWrite(lsTasks, IF impl = "A" THEN saveTasks(tasks') ELSE save(tasks'))
    /\ UNCHANGED <<impl, now, mounted, pinned, editingId, timerArmed, timerDay, lsLastClean>>
    /\ shown' = render(impl, tasks', pinned', now)

remove(id) ==
    /\ lastOp' = "remove"
    /\ UNCHANGED <<resolverVars, woVars, envVars, queueVars, cap>>
    /\ removed' = {}
    /\ mounted
    /\ Step
    /\ tasks' = SelectSeq(tasks, LAMBDA t : t.id # id)
    /\ lsTasks' = afterWrite(lsTasks, IF impl = "A" THEN saveTasks(tasks') ELSE save(tasks'))
    /\ UNCHANGED <<impl, now, mounted, pinned, editingId, timerArmed, timerDay, lsLastClean>>
    /\ shown' = render(impl, tasks', pinned', now)

setPriorityFor(id, p) ==
    /\ lastOp' = "setPriorityFor"
    /\ UNCHANGED <<resolverVars, woVars, envVars, queueVars, cap>>
    /\ removed' = {}
    /\ mounted
    /\ Step
    /\ tasks' = [i \in 1..Len(tasks) |->
                    IF tasks[i].id = id THEN [tasks[i] EXCEPT !.priority = p] ELSE tasks[i]]
    /\ pinned' = id
    /\ lsTasks' = afterWrite(lsTasks, IF impl = "A" THEN saveTasks(tasks') ELSE save(tasks'))
    /\ UNCHANGED <<impl, now, mounted, editingId, timerArmed, timerDay, lsLastClean>>
    /\ shown' = render(impl, tasks', pinned', now)

stageDueFor(id, key) ==
    /\ lastOp' = "stageDueFor"
    /\ UNCHANGED <<resolverVars, woVars, envVars, queueVars, cap>>
    /\ removed' = {}
    /\ mounted
    /\ Step
    /\ tasks' = [i \in 1..Len(tasks) |->
                    IF tasks[i].id # id THEN tasks[i] ELSE stageDue(tasks[i], key, now)]
    /\ pinned' = id
    /\ lsTasks' = afterWrite(lsTasks, IF impl = "A" THEN saveTasks(tasks') ELSE save(tasks'))
    /\ UNCHANGED <<impl, now, mounted, editingId, timerArmed, timerDay, lsLastClean>>
    /\ shown' = render(impl, tasks', pinned', now)

\* onSetEditingId = setEditingId: title button, title input blur / Enter / Escape,
\* Done / Edit toggle, arrow keys
setEditingId(id) ==
    /\ lastOp' = "setEditingId"
    /\ UNCHANGED <<resolverVars, woVars, envVars, queueVars, cap>>
    /\ removed' = {}
    /\ mounted
    /\ Step
    /\ editingId' = id
    /\ UNCHANGED <<impl, now, mounted, tasks, pinned, timerArmed, timerDay, lsTasks, lsLastClean>>
    /\ shown' = render(impl, tasks', pinned', now)

\* A: NotesEditor onBlur = onRowComplete = endRowEditing(null)
endRowEditing(id) ==
    /\ editingId' = id
    /\ IF id = NoId /\ pinned # NoId
       THEN /\ tasks' = commitPinned(tasks, pinned, now)
            /\ pinned' = NoId
       ELSE UNCHANGED <<tasks, pinned>>

\* B: NotesEditor onBlur dispatches "todo:unpin-if" with the row's id
onUnpin(id) ==
    /\ IF pinned # id
       THEN UNCHANGED <<tasks, pinned>>
       ELSE /\ tasks' = commitPinned(tasks, id, now)
            /\ pinned' = NoId
    /\ UNCHANGED editingId

\* the notes field of row id loses focus; the field exists only when the row is expanded
notesBlur(id) ==
    /\ lastOp' = "notesBlur"
    /\ UNCHANGED <<resolverVars, woVars, envVars, queueVars, cap>>
    /\ removed' = {}
    /\ mounted
    /\ Step
    /\ TaskOf(tasks, id).expanded
    /\ IF impl = "A" THEN endRowEditing(NoId) ELSE onUnpin(id)
    /\ lsTasks' = afterWrite(lsTasks, IF impl = "A" THEN saveTasks(tasks') ELSE save(tasks'))
    /\ UNCHANGED <<impl, now, mounted, timerArmed, timerDay, lsLastClean>>
    /\ shown' = render(impl, tasks', pinned', now)

Next ==
    \/ Mount
    \/ Unmount
    \/ Tick
    \/ MidnightTick
    \/ addInlineTask
    \/ \E id \in IdsOf(tasks) : toggleDone(id)
    \/ \E id \in IdsOf(tasks) : toggleExpanded(id)
    \/ \E id \in IdsOf(tasks) : remove(id)
    \/ \E id \in IdsOf(tasks), p \in Priorities : setPriorityFor(id, p)
    \/ \E id \in IdsOf(tasks), key \in OptionKeys(now) : stageDueFor(id, key)
    \/ \E id \in IdsOf(tasks) \cup {NoId} : setEditingId(id)
    \/ \E id \in IdsOf(tasks) : notesBlur(id)

Spec == Init /\ [][Next]_vars

\* ---------------------------------------------------------------- resolver alone
\* the task list and the work-order list are not open
TodoIdle ==
    /\ impl = "A"
    /\ mounted = FALSE
    /\ tasks = <<>>
    /\ pinned = NoId
    /\ editingId = NoId
    /\ timerArmed = FALSE
    /\ timerDay = 0
    /\ lsTasks = NoItem
    /\ lsLastClean = NoISO
    /\ removed = {}
    /\ shown = <<>>
    /\ cap = MaxTasks

WOIdle ==
    /\ woMounted = FALSE
    /\ woItems = <<>>
    /\ lsWO = NoItem
    /\ woWritten = {}
    /\ woError = FALSE

\* the stored dates a record can carry: none, or any date of the calendar
StoredDates == {NoISO} \cup {toISODate(d) : d \in 0..LastDate}

ResolverInit ==
    /\ TodoIdle
    /\ WOIdle
    /\ now \in 0..MaxDay
    /\ qDate \in StoredDates
    /\ qKey = NoKey
    /\ qOpts = <<>>
    /\ qText = NoText
    /\ qNorm = NoNorm
    /\ lastOp = "init"
    /\ storeFails = FALSE
    /\ taskQueue = <<>>
    /\ woQueue = <<>>
    /\ steps = 0

\* a render at the current clock: computeKeyForISO(qDate), buildDueOptions()
Resolve ==
    /\ lastOp' = "Resolve"
    /\ qKey' = computeKeyForISO(qDate, now)
    /\ qOpts' = buildDueOptions(now)
    /\ UNCHANGED <<qText, qNorm>>
    /\ UNCHANGED <<now, qDate, steps, todoVars, woVars, envVars, queueVars>>

\* local midnight passes; what was computed before stays as it was
ResolverTick ==
    /\ lastOp' = "ResolverTick"
    /\ now < MaxDay
    /\ now' = now + 1
    /\ UNCHANGED <<resolverVars, steps, todoVars, woVars, envVars, queueVars>>

ResolverNext == Resolve \/ ResolverTick

ResolverSpec == ResolverInit /\ [][ResolverNext]_vars

\* ---------------------------------------------------------------- ordering of any collection
\* the day the ordering is explored on: a Saturday
OrderDays == {6}

\* a record as the handlers leave it: created by makeTask, then its priority,
\* done flag and committed due date changed
TaskWith(id, priority, done, due, clock) ==
    [makeTask(id, priority, clock) EXCEPT !.done = done, !.dueISO = due,
                                          !.dueKey = computeKeyForISO(due, clock)]

\* the collections of n records, newest first, each of one of the two upper
\* priorities and due today or tomorrow (the third priority comes with the
\* operations: a new record, a priority change)
CollectionsOf(n, clock) ==
    {[i \in 1..n |-> TaskWith(n + 1 - i, c[i][1], c[i][2], toISODate(clock + c[i][3]), clock)] :
        c \in [1..n -> {"high", "medium"} \X BOOLEAN \X {0, 1}]}

\* an open task list holding any such collection, no edit under way
OrderInit ==
    /\ WOIdle
    /\ qDate = NoISO
    /\ qKey = NoKey
    /\ qOpts = <<>>
    /\ qText = NoText
    /\ qNorm = NoNorm
    /\ impl \in {"A", "B"}
    /\ now \in OrderDays
    /\ mounted = TRUE
    /\ \E n \in 0..MaxOrd : tasks \in CollectionsOf(n, now)
    /\ pinned = NoId
    /\ editingId = NoId
    /\ timerArmed = TRUE
    /\ timerDay = now + 1
    /\ lsTasks = IF impl = "A" THEN saveTasks(tasks) ELSE save(tasks)
    /\ lsLastClean = toISODate(now)
    /\ removed = {}
    /\ shown = render(impl, tasks, pinned, now)
    /\ cap = MaxOrd + 1
    /\ lastOp = "init"
    /\ storeFails = FALSE
    /\ taskQueue = <<>>
    /\ woQueue = <<>>
    /\ steps = MaxSteps - 1

\* the operations that change the collection, the pin or the day
OrderNext ==
    \/ addInlineTask
    \/ \E id \in IdsOf(tasks) : toggleDone(id)
    \/ \E id \in IdsOf(tasks) : remove(id)
    \/ \E id \in IdsOf(tasks), p \in Priorities : setPriorityFor(id, p)
    \/ \E id \in IdsOf(tasks), key \in OptionKeys(now) : stageDueFor(id, key)
    \/ \E id \in IdsOf(tasks) : notesBlur(id)
    \/ Tick
    \/ MidnightTick

OrderSpec == OrderInit /\ [][OrderNext]_vars

\* ---------------------------------------------------------------- work orders
Urgencies == {"low", "medium", "high"}

\* due_on: undefined, a "YYYY-MM-DD" date, or text that holds no date (its
\* parts are not numbers; one falsy part stands for them)
NoDue == <<>>
RawDue == <<0>>

\* the dates a due field is given: one before day 0, and two around each of
\* the distances 35 and 105 from day 0
WODueDates == {<<2025, 12, 20>>, <<2026, 1, 25>>, <<2026, 1, 26>>, <<2026, 4, 5>>, <<2026, 4, 6>>}
WODues == {NoDue, RawDue} \cup WODueDates

\* Date.UTC(y, m - 1, d) in whole days since 1970-01-01
DateUTC(y, m, d) ==
    LET yy == IF m <= 2 THEN y - 1 ELSE y
        era == yy \div 400
        yoe == yy - era * 400
        mp == IF m > 2 THEN m - 3 ELSE m + 9
        doy == (153 * mp + 2) \div 5 + d - 1
        doe == yoe * 365 + yoe \div 4 - yoe \div 100 + doy
    IN  era * 146097 + doe - 719468

\* Number.POSITIVE_INFINITY, or a whole number of days
Infinite == [finite |-> FALSE, days |-> 0]
Finite(n) == [finite |-> TRUE, days |-> n]

\* iso.split("-").map(Number)[i - 1]; a missing or non-numeric part is falsy
PartOf(iso, i) == IF i <= Len(iso) THEN iso[i] ELSE 0

daysBetweenUTC(iso, from) ==
    IF iso = NoDue THEN Infinite
    ELSE IF PartOf(iso, 1) = 0 \/ PartOf(iso, 2) = 0 \/ PartOf(iso, 3) = 0 THEN Infinite
    ELSE LET aUTC == DateUTC(iso[1], iso[2], iso[3])
             bUTC == DateUTC(toISODate(from)[1], toISODate(from)[2], toISODate(from)[3])
         IN  Finite(aUTC - bUTC)

\* a classification whose thresholds belong to the nearer tier
computeUrgencyInclusive(iso, clock) ==
    LET d == daysBetweenUTC(iso, clock)
    IN  IF ~d.finite THEN "low"
        ELSE IF d.days <= 35 THEN "high"
        ELSE IF d.days <= 105 THEN "medium"
        ELSE "low"

computeUrgencyFromDue(iso, clock) ==
    LET d == daysBetweenUTC(iso, clock)
    IN  IF ~d.finite THEN "low"
        ELSE IF d.days < 35 THEN "high"
        ELSE IF d.days < 105 THEN "medium"
        ELSE "low"

\* String(n).length
Digits(n) ==
    IF n < 10 THEN 1 ELSE IF n < 100 THEN 2 ELSE IF n < 1000 THEN 3 ELSE IF n < 10000 THEN 4 ELSE 5

\* the string year-month-day with a two-digit month and day and a year written
\* in yw digits; the triple is the string of a four-digit year
DateText(yw, y, m, d) == IF yw = 4 THEN <<y, m, d>> ELSE <<y, m, d, yw>>

\* text typed into the due field, trimmed: blank, "YYYY-MM-DD" (four, two and
\* two digits), digits/digits/digits with the digit count of each part, or
\* other text
Blank == [form |-> "blank"]
Text == [form |-> "text"]
IsoText(date) == [form |-> "iso", y |-> date[1], m |-> date[2], d |-> date[3]]
UsText(m, mw, d, dw, y, yw) ==
    [form |-> "us", m |-> m, mw |-> mw, d |-> d, dw |-> dw, y |-> y, yw |-> yw]

Invalid == [valid |-> FALSE, iso |-> NoDue]
Valid(iso) == [valid |-> TRUE, iso |-> iso]

\* /^(\d{1,2})\/(\d{1,2})\/(\d{2,4})$/
matchesUS(input) ==
    /\ input.form = "us"
    /\ input.mw \in 1..2
    /\ input.dw \in 1..2
    /\ input.yw \in 2..4

toISOIfPossible(input) ==
    IF input.form = "blank" THEN Invalid
    ELSE IF input.form = "iso" THEN Valid(DateText(4, input.y, input.m, input.d))
    ELSE IF matchesUS(input)
         THEN LET yyyy == IF input.y < 100 THEN 2000 + input.y ELSE input.y
              IN  IF input.m >= 1 /\ input.m <= 12 /\ input.d >= 1 /\ input.d <= 31
                  THEN Valid(DateText(Digits(yyyy), yyyy, input.m, input.d))
                  ELSE Invalid
    ELSE Invalid

\* the typed text a date string is: of the exact shape "YYYY-MM-DD" or not
textOf(iso) == IF Len(iso) = 3 THEN IsoText(iso) ELSE Text

\* the texts the model types: blank, free text, each date in both forms (the
\* slash form with a two-digit year), and a slash form with month 13
WOInputs ==
    {Blank, Text, UsText(13, 2, 1, 1, 26, 2)}
      \cup {IsoText(date) : date \in WODueDates}
      \cup {UsText(date[2], Digits(date[2]), date[3], Digits(date[3]), date[1] % 100, 2) :
                date \in WODueDates}

\* norm.iso ?? (raw.trim() ? raw : undefined)
dueOfInput(input) ==
    IF toISOIfPossible(input).valid THEN toISOIfPossible(input).iso
    ELSE IF input.form = "blank" THEN NoDue
    ELSE RawDue

WOIdsOf(items) == {items[i].id : i \in 1..Len(items)}
WOOf(items, id) == items[CHOOSE i \in 1..Len(items) : items[i].id = id]

\* a patch of updateWO: the keys it has and their values
DuePatch(due) == [hasDue |-> TRUE, due_on |-> due, hasUrgency |-> FALSE, urgency |-> "low"]
UrgencyPatch(u) == [hasDue |-> FALSE, due_on |-> NoDue, hasUrgency |-> TRUE, urgency |-> u]

updateWO(items, id, patch, clock) ==
    [i \in 1..Len(items) |->
        IF items[i].id # id THEN items[i]
        ELSE [items[i] EXCEPT
                !.due_on = IF patch.hasDue THEN patch.due_on ELSE @,
                !.urgency = IF patch.hasDue THEN computeUrgencyFromDue(patch.due_on, clock)
                            ELSE IF patch.hasUrgency THEN patch.urgency ELSE @]]

recomputeAllUrgencies(items, clock) ==
    [i \in 1..Len(items) |->
        IF items[i].urgency # computeUrgencyFromDue(items[i].due_on, clock)
        THEN [items[i] EXCEPT !.urgency = computeUrgencyFromDue(items[i].due_on, clock)]
        ELSE items[i]]

\* JSON.stringify(list): an undefined due_on is left out
stringifyWO(items) ==
    [i \in 1..Len(items) |->
        [id |-> items[i].id,
         due_on |-> toJSON(items[i].due_on, NoDue),
         urgency |-> JStr(items[i].urgency)]]

saveWO(items) == [present |-> TRUE, kind |-> "list", text |-> stringifyWO(items)]

\* JSON.parse(getItem || "[]"), each record with urgency || "medium"; [] if
\* parsing or mapping throws
loadWO(raw) ==
    IF ~raw.present \/ raw.kind # "list" THEN <<>>
    ELSE [i \in 1..Len(raw.text) |->
            [id |-> raw.text[i].id,
             due_on |-> fromJSON(raw.text[i].due_on, NoDue),
             urgency |-> IF raw.text[i].urgency.t = "null" THEN "medium"
                         ELSE raw.text[i].urgency.v]]

\* ids whose urgency differs between two collections
urgencyChanged(before, after) ==
    {id \in WOIdsOf(before) \cap WOIdsOf(after) : WOOf(before, id).urgency # WOOf(after, id).urgency}

\* ---------------------------------------------------------------- normalizer alone
\* a number as typed, with its digit count (leading zeros count)
Typed(v, w) == [v |-> v, w |-> w]
MonthsTyped == {Typed(0, 1), Typed(3, 1), Typed(3, 2), Typed(12, 2), Typed(13, 2), Typed(3, 3)}
DaysTyped == {Typed(0, 1), Typed(4, 1), Typed(4, 2), Typed(31, 2), Typed(32, 2), Typed(4, 3)}
YearsTyped ==
    {Typed(5, 1), Typed(0, 2), Typed(25, 2), Typed(99, 2), Typed(123, 3),
     Typed(25, 4), Typed(123, 4), Typed(1999, 4), Typed(2025, 4), Typed(20250, 5)}

\* the texts given to the normalizer
NormInputs ==
    {Blank, Text}
      \cup {IsoText(<<y, m, d>>) : y \in {25, 2025}, m \in {0, 3, 13}, d \in {4, 45}}
      \cup {UsText(m.v, m.w, d.v, d.w, y.v, y.w) : m \in MonthsTyped, d \in DaysTyped, y \in YearsTyped}

NormalizeInit ==
    /\ TodoIdle
    /\ WOIdle
    /\ now = 0
    /\ qDate = NoISO
    /\ qKey = NoKey
    /\ qOpts = <<>>
    /\ qText \in NormInputs
    /\ qNorm = NoNorm
    /\ lastOp = "init"
    /\ storeFails = FALSE
    /\ taskQueue = <<>>
    /\ woQueue = <<>>
    /\ steps = 0

\* toISOIfPossible applied to the text
Normalize ==
    /\ lastOp = "init"
    /\ lastOp' = "Normalize"
    /\ qNorm' = toISOIfPossible(qText)
    /\ UNCHANGED <<todoVars, envVars, queueVars, woVars, now, steps, qDate, qKey, qOpts, qText>>

\* toISOIfPossible applied to the date string it returned
Renormalize ==
    /\ lastOp = "Normalize"
    /\ qNorm.valid
    /\ lastOp' = "Renormalize"
    /\ qText' = textOf(qNorm.iso)
    /\ qNorm' = toISOIfPossible(qText')
    /\ UNCHANGED <<todoVars, envVars, queueVars, woVars, now, steps, qDate, qKey, qOpts>>

NormalizeNext == Normalize \/ Renormalize

NormalizeSpec == NormalizeInit /\ [][NormalizeNext]_vars

\* ---------------------------------------------------------------- work-order list
\* the days on which a work-order behaviour may start
WOStartDays == {0, 1}

\* what an earlier session left in storage: nothing, an empty list, or one work order
StoredWO ==
    {<<>>} \cup {<<[id |-> 1, due_on |-> due, urgency |-> u]>> : due \in WODues, u \in Urgencies}

WOInit ==
    /\ TodoIdle
    /\ qDate = NoISO
    /\ qKey = NoKey
    /\ qOpts = <<>>
    /\ qText = NoText
    /\ qNorm = NoNorm
    /\ now \in WOStartDays
    /\ woMounted = FALSE
    /\ woItems = <<>>
    /\ lsWO \in {NoItem} \cup {saveWO(list) : list \in StoredWO}
    /\ woWritten = {}
    /\ woError = FALSE
    /\ lastOp = "init"
    /\ storeFails = FALSE
    /\ taskQueue = <<>>
    /\ woQueue = <<>>
    /\ steps = 0

\* setItems(next), the re-render and the persist effect saveWO(items); an
\* exception of setItem escapes the effect and the list is unmounted
Commit(next, written) ==
    IF storeFails
    THEN /\ woMounted' = FALSE
         /\ woItems' = <<>>
         /\ lsWO' = lsWO
         /\ woWritten' = {}
         /\ woError' = TRUE
    ELSE /\ woMounted' = TRUE
         /\ woItems' = next
         /\ lsWO' = saveWO(next)
         /\ woWritten' = written
         /\ woError' = FALSE

\* useState(loadWO), then the effects: save, the initial recompute, save again
WOMount ==
    /\ lastOp' = "WOMount"
    /\ ~woMounted
    /\ Commit(recomputeAllUrgencies(loadWO(lsWO), now),
              urgencyChanged(loadWO(lsWO), recomputeAllUrgencies(loadWO(lsWO), now)))
    /\ UNCHANGED <<todoVars, envVars, queueVars, resolverVars, now, steps>>

\* the page is closed: the interval is cleared, the state is gone
WOUnmount ==
    /\ lastOp' = "WOUnmount"
    /\ woMounted
    /\ Step
    /\ woMounted' = FALSE
    /\ woItems' = <<>>
    /\ woWritten' = {}
    /\ UNCHANGED <<todoVars, envVars, queueVars, resolverVars, now, lsWO, woError>>

\* a day passes
WOTick ==
    /\ lastOp' = "WOTick"
    /\ now < WOMaxDay
    /\ Step
    /\ now' = now + 1
    /\ woWritten' = {}
    /\ UNCHANGED <<todoVars, envVars, queueVars, resolverVars, woMounted, woItems, lsWO, woError>>

\* an interval callback that leaves the collection as it is
WORecomputeIdle ==
    /\ lastOp' = "WORecompute"
    /\ woMounted
    /\ woWritten' = {}
    /\ UNCHANGED <<todoVars, envVars, queueVars, resolverVars, now, steps, woMounted, woItems, lsWO, woError>>

\* the setInterval callback; an unchanged collection is not set and not saved
WORecompute ==
    /\ lastOp' = "WORecompute"
    /\ woMounted
    /\ IF recomputeAllUrgencies(woItems, now) = woItems
       THEN /\ woWritten' = {}
            /\ UNCHANGED <<woMounted, woItems, lsWO, woError>>
       ELSE Commit(recomputeAllUrgencies(woItems, now),
                   urgencyChanged(woItems, recomputeAllUrgencies(woItems, now)))
    /\ UNCHANGED <<todoVars, envVars, queueVars, resolverVars, now, steps>>

addWO ==
    /\ lastOp' = "addWO"
    /\ woMounted
    /\ Step
    /\ Len(woItems) < MaxWO
    /\ Commit(<<[id |-> FreshId(WOIdsOf(woItems)), due_on |-> NoDue,
                 urgency |-> computeUrgencyFromDue(NoDue, now)]>> \o woItems, {})
    /\ UNCHANGED <<todoVars, envVars, queueVars, resolverVars, now>>

\* onChange of the due field
dueChange(id, input) ==
    /\ lastOp' = "dueChange"
    /\ woMounted
    /\ Step
    /\ Commit(updateWO(woItems, id, DuePatch(dueOfInput(input)), now), {id})
    /\ UNCHANGED <<todoVars, envVars, queueVars, resolverVars, now>>

\* onChange of the urgency select
setUrgency(id, u) ==
    /\ lastOp' = "setUrgency"
    /\ woMounted
    /\ Step
    /\ Commit(updateWO(woItems, id, UrgencyPatch(u), now), {id})
    /\ UNCHANGED <<todoVars, envVars, queueVars, resolverVars, now>>

removeWO(id) ==
    /\ lastOp' = "removeWO"
    /\ woMounted
    /\ Step
    /\ Commit(SelectSeq(woItems, LAMBDA w : w.id # id), {})
    /\ UNCHANGED <<todoVars, envVars, queueVars, resolverVars, now>>

WONext ==
    \/ WOMount
    \/ WOUnmount
    \/ WOTick
    \/ WORecompute
    \/ addWO
    \/ \E id \in WOIdsOf(woItems), input \in WOInputs : dueChange(id, input)
    \/ \E id \in WOIdsOf(woItems), u \in Urgencies : setUrgency(id, u)
    \/ \E id \in WOIdsOf(woItems) : removeWO(id)

WOSpec == WOInit /\ [][WONext]_vars

\* the interval keeps firing while the page is open
WOLive == WOSpec /\ WF_vars(WORecompute)

\* ---------------------------------------------------------------- start from stored data
\* a tier as another version or another program stored it: unknown, or left out
UnknownTier == "urgent"
MissingTier == "undefined"

\* what the task key may hold: nothing, no JSON, JSON that is no array, or a
\* list of one record with a known, an unknown or no priority
StoredTaskItems(clock) ==
    {NoItem, Garbage, NotArray}
      \cup {saveTasks(<<TaskWith(1, p, FALSE, toISODate(clock), clock)>>) :
                p \in Priorities \cup {UnknownTier, MissingTier}}

\* what the work-order key may hold: the same, the record with a known, an
\* unknown or no urgency
StoredWOItems ==
    {NoItem, Garbage, NotArray}
      \cup {[present |-> TRUE, kind |-> "list",
             text |-> <<[id |-> 1, due_on |-> toJSON(due, NoDue), urgency |-> u]>>] :
                due \in {NoDue, <<2026, 1, 25>>},
                u \in {JNull, JStr(UnknownTier), JStr("high")}}

\* both lists closed, one of the two keys holding stored data
LoadInit ==
    /\ impl \in {"A", "B"}
    /\ now \in WOStartDays
    /\ mounted = FALSE
    /\ tasks = <<>>
    /\ pinned = NoId
    /\ editingId = NoId
    /\ timerArmed = FALSE
    /\ timerDay = 0
    /\ \/ lsTasks \in StoredTaskItems(now) /\ lsWO = NoItem
       \/ lsTasks = NoItem /\ lsWO \in StoredWOItems
    /\ lsLastClean = NoISO
    /\ removed = {}
    /\ shown = <<>>
    /\ cap = MaxTasks
    /\ qDate = NoISO
    /\ qKey = NoKey
    /\ qOpts = <<>>
    /\ qText = NoText
    /\ qNorm = NoNorm
    /\ woMounted = FALSE
    /\ woItems = <<>>
    /\ woWritten = {}
    /\ woError = FALSE
    /\ lastOp = "init"
    /\ storeFails = FALSE
    /\ taskQueue = <<>>
    /\ woQueue = <<>>
    /\ steps = MaxSteps - 2

LoadNext == Next \/ WONext

LoadSpec == LoadInit /\ [][LoadNext]_vars

\* ---------------------------------------------------------------- failing store
\* both lists closed, nothing stored, the store accepting writes or not
FailInit ==
    /\ impl \in {"A", "B"}
    /\ now \in WOStartDays
    /\ mounted = FALSE
    /\ tasks = <<>>
    /\ pinned = NoId
    /\ editingId = NoId
    /\ timerArmed = FALSE
    /\ timerDay = 0
    /\ lsTasks = NoItem
    /\ lsLastClean = NoISO
    /\ removed = {}
    /\ shown = <<>>
    /\ cap = MaxTasks
    /\ qDate = NoISO
    /\ qKey = NoKey
    /\ qOpts = <<>>
    /\ qText = NoText
    /\ qNorm = NoNorm
    /\ woMounted = FALSE
    /\ woItems = <<>>
    /\ lsWO = NoItem
    /\ woWritten = {}
    /\ woError = FALSE
    /\ lastOp = "init"
    /\ storeFails \in BOOLEAN
    /\ taskQueue = <<>>
    /\ woQueue = <<>>
    /\ steps = MaxSteps - 2

\* the store fills up, or is cleared
StoreTurns ==
    /\ lastOp' = "StoreTurns"
    /\ Step
    /\ storeFails' = ~storeFails
    /\ UNCHANGED <<todoVars, resolverVars, woVars, queueVars, now>>

FailNext == Next \/ WONext \/ StoreTurns

FailSpec == FailInit /\ [][FailNext]_vars

\* ---------------------------------------------------------------- update queue
\* React keeps the updaters passed to setTasks / setItems in a queue and runs
\* them in order, each on the result of the one before, at the next render.
\* Here a handler or timer callback only enqueues; several may run before the
\* render.

\* most updaters waiting for one render
MaxQueue == 3

\* the updater a task handler passes to setTasks: what it does, the values its
\* closure captured, and the collection of the render the handler belongs to
TaskUpdater(op, id, p, key, clock, seen) ==
    [op |-> op, id |-> id, priority |-> p, key |-> key, clock |-> clock, seen |-> seen]

\* the body of the updater, a function of prev
taskUpdater(u, prev) ==
    CASE u.op = "toggleDone" ->
            [i \in 1..Len(prev) |->
                IF prev[i].id = u.id THEN [prev[i] EXCEPT !.done = ~prev[i].done] ELSE prev[i]]
      [] u.op = "remove" -> SelectSeq(prev, LAMBDA t : t.id # u.id)
      [] u.op = "setPriorityFor" ->
            [i \in 1..Len(prev) |->
                IF prev[i].id = u.id THEN [prev[i] EXCEPT !.priority = u.priority] ELSE prev[i]]
      [] u.op = "stageDueFor" ->
            [i \in 1..Len(prev) |->
                IF prev[i].id # u.id THEN prev[i] ELSE stageDue(prev[i], u.key, u.clock)]
      [] u.op = "prune" -> cleanupDoneBeforeToday(prev, u.clock)

\* an updater run on the collection its handler was rendered with
applyTaskUpdaterToRendered(u, prev) == taskUpdater(u, u.seen)

\* React runs the updater on the latest collection
applyTaskUpdater(u, prev) == taskUpdater(u, prev)

RECURSIVE runTaskQueue(_, _)
runTaskQueue(queue, prev) ==
    IF queue = <<>> THEN prev
    ELSE runTaskQueue(Tail(queue), applyTaskUpdater(Head(queue), prev))

\* the updater a work-order handler passes to setItems
WOUpdater(op, id, patch, clock, seen) ==
    [op |-> op, id |-> id, patch |-> patch, clock |-> clock, seen |-> seen]

\* the body of the updater; the recompute reads the clock when it runs
woUpdater(u, prev, clock) ==
    CASE u.op = "updateWO" -> updateWO(prev, u.id, u.patch, u.clock)
      [] u.op = "removeWO" -> SelectSeq(prev, LAMBDA w : w.id # u.id)
      [] u.op = "addWO" ->
            <<[id |-> u.id, due_on |-> NoDue,
               urgency |-> computeUrgencyFromDue(NoDue, u.clock)]>> \o prev
      [] u.op = "recompute" -> recomputeAllUrgencies(prev, clock)

applyWOUpdater(u, prev, clock) == woUpdater(u, prev, clock)

RECURSIVE runWOQueue(_, _, _)
runWOQueue(queue, prev, clock) ==
    IF queue = <<>> THEN prev
    ELSE runWOQueue(Tail(queue), applyWOUpdater(Head(queue), prev, clock), clock)

\* what the handlers are called with here: two of the due options, the
\* priorities other than the initial ones' own, three due texts
QueueKeys == {KeyToday, KeyTomorrow}
QueuePriorities == {"low"}
QueueInputs == {Blank, Text, IsoText(<<2026, 1, 25>>)}

\* the open work-order list holds one work order
QueueWO ==
    {<<[id |-> 1, due_on |-> due, urgency |-> u]>> : due \in {NoDue, <<2026, 1, 26>>}, u \in Urgencies}

\* a day that has a yesterday
QueueDays == {d \in WOStartDays : d - 1 \in WOStartDays}

\* two records, the older one due yesterday, each done or not
QueueCollections(clock) ==
    {<<TaskWith(2, "high", d2, toISODate(clock), clock),
       TaskWith(1, "medium", d1, toISODate(clock - 1), clock)>> : d1 \in BOOLEAN, d2 \in BOOLEAN}

\* one of the two lists is open and has been since yesterday; midnight has
\* passed and the midnight callback has not run yet; two user calls follow
QueueInit ==
    /\ now \in QueueDays
    /\ qDate = NoISO
    /\ qKey = NoKey
    /\ qOpts = <<>>
    /\ qText = NoText
    /\ qNorm = NoNorm
    /\ \/ /\ WOIdle
          /\ impl \in {"A", "B"}
          /\ mounted = TRUE
          /\ tasks \in QueueCollections(now)
          /\ pinned = NoId
          /\ editingId = NoId
          /\ timerArmed = TRUE
          /\ timerDay = now
          /\ lsTasks = IF impl = "A" THEN saveTasks(tasks) ELSE save(tasks)
          /\ lsLastClean = toISODate(now - 1)
          /\ removed = {}
          /\ shown = render(impl, tasks, pinned, now)
          /\ cap = MaxTasks
       \/ /\ TodoIdle
          /\ woMounted = TRUE
          /\ woItems \in QueueWO
          /\ lsWO = saveWO(woItems)
          /\ woWritten = {}
          /\ woError = FALSE
    /\ lastOp = "init"
    /\ storeFails = FALSE
    /\ taskQueue = <<>>
    /\ woQueue = <<>>
    /\ steps = MaxSteps - 2

\* setTasks(updater) called from a user handler
setTasks(u) ==
    /\ mounted
    /\ Step
    /\ Len(taskQueue) < MaxQueue
    /\ taskQueue' = Append(taskQueue, u)
    /\ UNCHANGED <<impl, now, mounted, tasks, editingId, timerArmed, timerDay, lsTasks, lsLastClean,
                   removed, shown, cap, woQueue, resolverVars, woVars, envVars>>

onToggleDone(id) ==
    /\ lastOp' = "onToggleDone"
    /\ setTasks(TaskUpdater("toggleDone", id, "high", KeyToday, now, tasks))
    /\ UNCHANGED pinned

onRemove(id) ==
    /\ lastOp' = "onRemove"
    /\ setTasks(TaskUpdater("remove", id, "high", KeyToday, now, tasks))
    /\ UNCHANGED pinned

onSetPriorityFor(id, p) ==
    /\ lastOp' = "onSetPriorityFor"
    /\ setTasks(TaskUpdater("setPriorityFor", id, p, KeyToday, now, tasks))
    /\ pinned' = id

onStageDueFor(id, key) ==
    /\ lastOp' = "onStageDueFor"
    /\ setTasks(TaskUpdater("stageDueFor", id, "high", key, now, tasks))
    /\ pinned' = id

\* the setTimeout callback of the midnight effect: setTasks(prune), then the stamp
onMidnight ==
    /\ lastOp' = "onMidnight"
    /\ mounted
    /\ timerArmed
    /\ now >= timerDay
    /\ Len(taskQueue) < MaxQueue
    /\ taskQueue' = Append(taskQueue, TaskUpdater("prune", NoId, "high", KeyToday, now, tasks))
    /\ lsLastClean' = afterWrite(lsLastClean, toISODate(startOfDay(now)))
    /\ timerArmed' = FALSE
    /\ timerDay' = 0
    /\ UNCHANGED <<impl, now, mounted, tasks, pinned, editingId, lsTasks, removed, shown, cap,
                   woQueue, resolverVars, woVars, envVars, steps>>

\* setItems(updater) called from a user handler
setItems(u) ==
    /\ woMounted
    /\ Step
    /\ Len(woQueue) < MaxQueue
    /\ woQueue' = Append(woQueue, u)
    /\ UNCHANGED <<todoVars, resolverVars, woVars, envVars, taskQueue, now>>

onUpdateWO(id, patch) ==
    /\ lastOp' = "onUpdateWO"
    /\ setItems(WOUpdater("updateWO", id, patch, now, woItems))

onRemoveWO(id) ==
    /\ lastOp' = "onRemoveWO"
    /\ setItems(WOUpdater("removeWO", id, UrgencyPatch("low"), now, woItems))

\* the new id is drawn when the handler runs
onAddWO ==
    /\ lastOp' = "onAddWO"
    /\ Len(woItems) + Len(woQueue) < MaxWO
    /\ setItems(WOUpdater("addWO",
                          FreshId(WOIdsOf(woItems) \cup {woQueue[i].id : i \in 1..Len(woQueue)}),
                          UrgencyPatch("low"), now, woItems))

\* the setInterval callback: recomputeAllUrgencies()
onInterval ==
    /\ lastOp' = "onInterval"
    /\ woMounted
    /\ Len(woQueue) < MaxQueue
    /\ woQueue' = Append(woQueue, WOUpdater("recompute", NoId, UrgencyPatch("low"), now, woItems))
    /\ UNCHANGED <<todoVars, resolverVars, woVars, envVars, taskQueue, now, steps>>

\* React processes the queues, re-renders, and the persist effects run
Render ==
    /\ lastOp' = "Render"
    /\ taskQueue # <<>> \/ woQueue # <<>>
    /\ tasks' = runTaskQueue(taskQueue, tasks)
    /\ removed' = IdsOf(tasks) \ IdsOf(tasks')
    /\ IF taskQueue = <<>>
       THEN UNCHANGED <<lsTasks, shown>>
       ELSE /\ lsTasks' = afterWrite(lsTasks, IF impl = "A" THEN saveTasks(tasks') ELSE save(tasks'))
            /\ shown' = render(impl, tasks', pinned, now)
    /\ IF woQueue = <<>>
       THEN UNCHANGED woVars
       ELSE Commit(runWOQueue(woQueue, woItems, now),
                   urgencyChanged(woItems, runWOQueue(woQueue, woItems, now)))
    /\ taskQueue' = <<>>
    /\ woQueue' = <<>>
    /\ UNCHANGED <<impl, now, mounted, pinned, editingId, timerArmed, timerDay, lsLastClean, cap,
                   steps, resolverVars, envVars>>

QueueNext ==
    \/ \E id \in IdsOf(tasks) : onToggleDone(id)
    \/ \E id \in IdsOf(tasks) : onRemove(id)
    \/ \E id \in IdsOf(tasks), p \in QueuePriorities : onSetPriorityFor(id, p)
    \/ \E id \in IdsOf(tasks), key \in QueueKeys : onStageDueFor(id, key)
    \/ onMidnight
    \/ \E id \in WOIdsOf(woItems), input \in QueueInputs : onUpdateWO(id, DuePatch(dueOfInput(input)))
    \/ \E id \in WOIdsOf(woItems), u \in Urgencies : onUpdateWO(id, UrgencyPatch(u))
    \/ \E id \in WOIdsOf(woItems) : onRemoveWO(id)
    \/ onAddWO
    \/ onInterval
    \/ Render

QueueSpec == QueueInit /\ [][QueueNext]_vars

\* ---------------------------------------------------------------- claims
\* the record stays in the open list across the step, on the same day
Stays(id) == mounted /\ mounted' /\ now' = now /\ id \in IdsOf(tasks) /\ id \in IdsOf(tasks')

\* C1: while a due-date change is staged on record R (from the staging step
\* until the edit ends) R's committed dueISO and the group R is rendered under
\* are what they were before the step.
C1_StagingKeepsGroup ==
    [][\A id \in IdPool :
        (Stays(id) /\ TaskOf(tasks', id).pendingDueISO # NoISO)
        => /\ TaskOf(tasks', id).dueISO = TaskOf(tasks, id).dueISO
           /\ groupLabelOf(impl, TaskOf(tasks', id), now) = groupLabelOf(impl, TaskOf(tasks, id), now)]_vars

\* C2: on every weekday, when the pinned record R carries today's staged
\* "Next Monday" option and its edit ends by a notes blur, R is rendered in
\* the group headed "Next Monday".
C2_NextMondayGroupAfterCommit ==
    [][\A id \in IdPool :
        (/\ Stays(id)
         /\ pinned = id
         /\ TaskOf(tasks, id).pendingDueKey = KeyNextMon
         /\ TaskOf(tasks, id).pendingDueISO = findOption(KeyNextMon, now).iso
         /\ notesBlur(id))
        => groupLabelOf(impl, TaskOf(tasks', id), now) = "Next Monday"]_vars

\* C3: when an edit begins on another record while record A is pinned with a
\* staged pendingDueISO, A's pendingDueISO is committed into A's dueISO and cleared.
C3_RepinCommitsPrevious ==
    [][\A a \in IdPool :
        (/\ Stays(a)
         /\ pinned = a
         /\ pinned' # a
         /\ pinned' # NoId
         /\ TaskOf(tasks, a).pendingDueISO # NoISO)
        => /\ TaskOf(tasks', a).dueISO = TaskOf(tasks, a).pendingDueISO
           /\ TaskOf(tasks', a).pendingDueISO = NoISO]_vars

\* C4: a record has a pendingDueISO only if it is the pinned record.
C4_PendingOnlyOnPinned ==
    mounted => \A i \in 1..Len(tasks) : tasks[i].pendingDueISO # NoISO => pinned = tasks[i].id

\* C5: when the notes field of the pinned record R loses focus: with a staged
\* pendingDueISO p, afterwards dueISO = p, dueKey is the key computed from p,
\* nothing is staged and no record is pinned; with nothing staged, dueISO is unchanged.
C5_NotesBlurCommits ==
    [][\A id \in IdPool :
        (Stays(id) /\ pinned = id /\ notesBlur(id))
        => /\ pinned' = NoId
           /\ TaskOf(tasks', id).pendingDueISO = NoISO
           /\ TaskOf(tasks', id).pendingDueKey = NoKey
           /\ IF TaskOf(tasks, id).pendingDueISO # NoISO
              THEN /\ TaskOf(tasks', id).dueISO = TaskOf(tasks, id).pendingDueISO
                   /\ TaskOf(tasks', id).dueKey = computeKeyForISO(TaskOf(tasks, id).pendingDueISO, now)
              ELSE TaskOf(tasks', id).dueISO = TaskOf(tasks, id).dueISO]_vars

\* a staged date was committed by the notes blur of the pinned record
C5_Witness ==
    /\ mounted
    /\ lastOp = "notesBlur"
    /\ pinned = NoId
    /\ \E i \in 1..Len(tasks) :
          /\ tasks[i].dueKey # KeyToday
          /\ tasks[i].dueISO # toISODate(now)
          /\ tasks[i].pendingDueISO = NoISO

\* C6: closing edit mode on the record under edit (editingId set to none)
\* commits its staged pendingDueISO into dueISO and clears the pin.
C6_CloseEditCommits ==
    [][\A id \in IdPool :
        (/\ Stays(id)
         /\ editingId = id
         /\ editingId' = NoId
         /\ pinned = id
         /\ TaskOf(tasks, id).pendingDueISO # NoISO)
        => /\ TaskOf(tasks', id).dueISO = TaskOf(tasks, id).pendingDueISO
           /\ TaskOf(tasks', id).pendingDueISO = NoISO
           /\ pinned' = NoId]_vars

\* the day-number order of dates, as a calendar has it
Prunable(t, clock) == t.done /\ t.dueISO # NoISO /\ parseISO(t.dueISO) < clock

C8_TimerRearmed ==
    [][MidnightTick => (timerArmed' /\ timerDay' = now + 1)]_vars

\* C9: a prune runs only when the persisted stamp is not today's date and sets
\* the stamp to today's date; a start with the stamp equal to today's date
\* keeps every stored record and the stamp.
C9_PruneOncePerDay ==
    [][/\ (Mount /\ lsLastClean = toISODate(now))
          => /\ tasks' = initialTasks(impl, lsTasks, now)
             /\ removed' = {}
             /\ lsLastClean' = lsLastClean
       /\ (Mount /\ lsLastClean # toISODate(now))
          => lsLastClean' = toISODate(now)
       /\ MidnightTick
          => /\ lsLastClean # toISODate(now)
             /\ lsLastClean' = toISODate(now)]_vars

\* reopened on a day already cleaned, with a done record of a past day in store
C9_Witness ==
    /\ lastOp = "Mount"
    /\ removed = {}
    /\ lsLastClean = toISODate(now)
    /\ \E i \in 1..Len(tasks) : Prunable(tasks[i], now)

FirstMondayAfter(d) == CHOOSE m \in (d + 1)..(d + 7) : getDay(m) = 1

\* C10: for every today the next-monday date is the first Monday strictly
\* after today (today + 7 on a Monday), and computeKeyForISO returns the
\* next-mon key for exactly that date (compared on the days where that Monday
\* is not also tomorrow).
C10_NextMondayIsFirstMondayAfter ==
    /\ nextMondayFrom(now) = FirstMondayAfter(now)
    /\ FirstMondayAfter(now) # now + 1
       => \A d \in 0..LastDate :
             computeKeyForISO(toISODate(d), now) = KeyNextMon <=> d = FirstMondayAfter(now)

\* C11: the key of an absent due date is the no-date key, never "today" or a
\* dated key, also when a commit recomputes the key of a record without a date.
C11_AbsentDateKeysNoDate ==
    (lastOp = "Resolve" /\ qDate = NoISO)
    => /\ qKey.kind = "no-date"
       /\ \A p \in Priorities :
             commitDue([makeTask(1, p, now) EXCEPT !.dueISO = NoISO, !.dueKey = NoKey], now).dueKey.kind
                = "no-date"

\* C12: the key of today's date is "today"; a stored date that is not today,
\* tomorrow or the first Monday after today gets the weekday key carrying its
\* literal date; so a date ten days ahead has the same key today and tomorrow,
\* and yesterday's "today" is weekday-keyed today.
C12_KeyOfDate ==
    /\ (lastOp = "Resolve" /\ qDate # NoISO)
       => /\ parseISO(qDate) = now => qKey = KeyToday
          /\ parseISO(qDate) \notin {now, now + 1, FirstMondayAfter(now)} => qKey = KeyWd(qDate)
    /\ (now + 10 <= LastDate /\ now + 1 <= MaxDay)
       => /\ computeKeyForISO(toISODate(now + 10), now) = KeyWd(toISODate(now + 10))
          /\ computeKeyForISO(toISODate(now + 10), now + 1) = KeyWd(toISODate(now + 10))
    /\ now >= 1
       => /\ computeKeyForISO(toISODate(now - 1), now - 1) = KeyToday
          /\ computeKeyForISO(toISODate(now - 1), now) = KeyWd(toISODate(now - 1))

\* a date ten days ahead was keyed by its literal date
C12_Witness ==
    /\ lastOp = "Resolve"
    /\ qDate # NoISO
    /\ parseISO(qDate) = now + 10
    /\ qKey = KeyWd(qDate)

\* the keys the options are to have on day n, in order
ExpectedOptionKeys(n) ==
    IF getDay(n) \in {5, 6, 0} THEN <<KeyToday, KeyNextMon>>
    ELSE <<KeyToday, KeyTomorrow>>
         \o [i \in 1..(4 - getDay(n)) |-> KeyWd(toISODate(n + 1 + i))]
         \o <<KeyNextMon>>

\* C13: the options are "today" first; on Friday, Saturday and Sunday only
\* "next-mon" after it; otherwise "tomorrow", one entry keyed by its literal
\* date for every following day up to the coming Friday in ascending order,
\* and "next-mon" last.
C13_OptionsInOrder ==
    lastOp = "Resolve"
    => /\ [i \in 1..Len(qOpts) |-> qOpts[i].key] = ExpectedOptionKeys(now)
       /\ \A i \in 1..Len(qOpts) : qOpts[i].key.kind = "wd" => qOpts[i].iso = qOpts[i].key.iso
       /\ qOpts[1].iso = toISODate(now)

\* the options of a Monday: today, tomorrow, Wednesday to Friday, next Monday
C13_Witness ==
    /\ lastOp = "Resolve"
    /\ getDay(now) = 1
    /\ Len(qOpts) = 6

\* rank of a priority tier
TierRank(p) == CASE p = "high" -> 0 [] p = "medium" -> 1 [] p = "low" -> 2

\* position of a record in the whole collection
PosIn(ts, id) == CHOOSE i \in 1..Len(ts) : ts[i].id = id

\* row x goes before row y in the group headed label: not-done before done in
\* "Today", then the smaller rank, then the smaller collection index
GoesBefore(ts, x, y, label) ==
    LET dx == IF label = "Today" /\ TaskOf(ts, x).done THEN 1 ELSE 0
        dy == IF label = "Today" /\ TaskOf(ts, y).done THEN 1 ELSE 0
        rx == TierRank(TaskOf(ts, x).priority)
        ry == TierRank(TaskOf(ts, y).priority)
    IN  \/ dx < dy
        \/ dx = dy /\ rx < ry
        \/ dx = dy /\ rx = ry /\ PosIn(ts, x) < PosIn(ts, y)

\* the rows of a rendered group without the pinned row
Unpinned(rows, pin) == SelectSeq(rows, LAMBDA x : x # pin)

GroupInOrder(which, ts, pin, clock, g) ==
    /\ {g.rows[j] : j \in 1..Len(g.rows)}
          = {ts[i].id : i \in {i \in 1..Len(ts) : groupLabelOf(which, ts[i], clock) = g.label}}
    /\ \A i, j \in 1..Len(g.rows) : i # j => g.rows[i] # g.rows[j]
    /\ (\E j \in 1..Len(g.rows) : g.rows[j] = pin) => g.rows[1] = pin
    /\ \A i, j \in 1..Len(Unpinned(g.rows, pin)) :
          i < j => GoesBefore(ts, Unpinned(g.rows, pin)[i], Unpinned(g.rows, pin)[j], g.label)

\* C14: every rendered group holds the records of its label, the pinned record
\* first if it is among them, then the others by priority rank and, on equal
\* rank, by collection index; in "Today" the others are not-done first, then
\* done, each part in that order.
C14_GroupOrder ==
    (mounted /\ lastOp # "Tick")
    => \A k \in 1..Len(shown) : GroupInOrder(impl, tasks, pinned, now, shown[k])

\* a "Today" group whose pinned low row leads, and whose not-done row precedes a done high row
C14_Witness ==
    /\ mounted
    /\ lastOp = "setPriorityFor"
    /\ \E k \in 1..Len(shown) :
          /\ shown[k].label = "Today"
          /\ Len(shown[k].rows) = 3
          /\ shown[k].rows[1] = pinned
          /\ TaskOf(tasks, shown[k].rows[1]).priority = "low"
          /\ ~TaskOf(tasks, shown[k].rows[2]).done
          /\ TaskOf(tasks, shown[k].rows[2]).priority = "medium"
          /\ TaskOf(tasks, shown[k].rows[3]).done
          /\ TaskOf(tasks, shown[k].rows[3]).priority = "high"

\* the group a record is rendered in, and its row there
GroupOf(sh, id) == CHOOSE k \in 1..Len(sh) : \E j \in 1..Len(sh[k].rows) : sh[k].rows[j] = id
RowOf(sh, id) == CHOOSE j \in 1..Len(sh[GroupOf(sh, id)].rows) : sh[GroupOf(sh, id)].rows[j] = id
Shown(sh, id) == \E k \in 1..Len(sh) : \E j \in 1..Len(sh[k].rows) : sh[k].rows[j] = id

\* two unpinned records of equal priority rendered in one group (in "Today", one part)
TiedPair(ts, sh, pin, a, b) ==
    /\ a \in IdsOf(ts) /\ b \in IdsOf(ts)
    /\ a # pin /\ b # pin
    /\ TaskOf(ts, a).priority = TaskOf(ts, b).priority
    /\ Shown(sh, a) /\ Shown(sh, b)
    /\ GroupOf(sh, a) = GroupOf(sh, b)
    /\ sh[GroupOf(sh, a)].label = "Today" => TaskOf(ts, a).done = TaskOf(ts, b).done

RowRecords(ts, rows) == [j \in 1..Len(rows) |-> TaskOf(ts, rows[j])]

\* C16: ordering a rendered group again, with the same collection and pin,
\* yields the same sequence.
C16_OrderIdempotent ==
    (mounted /\ lastOp # "Tick")
    => \A k \in 1..Len(shown) :
          idsIn(orderRows(RowRecords(tasks, shown[k].rows), tasks, pinned, shown[k].label))
             = shown[k].rows

\* a group of a pinned row and two rows of equal priority was ordered again
C16_Witness ==
    /\ mounted
    /\ lastOp = "stageDueFor"
    /\ \E k \in 1..Len(shown) :
          /\ Len(shown[k].rows) = 3
          /\ shown[k].rows[1] = pinned
          /\ PosIn(tasks, pinned) > 1
          /\ TaskOf(tasks, shown[k].rows[2]).priority = TaskOf(tasks, shown[k].rows[3]).priority

\* the day number of each due date, counted on the calendar from day 0 (2025-12-21)
DueDay(date) ==
    CASE date = <<2025, 12, 20>> -> -1
      [] date = <<2026, 1, 25>> -> 35
      [] date = <<2026, 1, 26>> -> 36
      [] date = <<2026, 4, 5>> -> 105
      [] date = <<2026, 4, 6>> -> 106

\* the tier of a due value on a clock day: low without a date, else by the
\* whole-day distance d: high below 35, medium from 35 to 104, low from 105
TierOf(due, clock) ==
    IF due \notin WODueDates THEN "low"
    ELSE IF DueDay(due) - clock < 35 THEN "high"
    ELSE IF DueDay(due) - clock < 105 THEN "medium"
    ELSE "low"

\* C17: whenever a due-date change, the start-up recompute or the periodic
\* recompute writes a work order's urgency, the value is low for no due date,
\* and for a due date at whole-day distance d from today it is high if
\* d < 35, medium if 35 <= d < 105 and low if d >= 105 (overdue is high).
C17_ClassifyByDistance ==
    (lastOp \in {"dueChange", "WORecompute", "WOMount"})
    => \A id \in woWritten :
          WOOf(woItems, id).due_on \in {NoDue} \cup WODueDates
          => WOOf(woItems, id).urgency = TierOf(WOOf(woItems, id).due_on, now)

\* a recompute wrote high at distance 34 and medium at distance 104
C17_Witness ==
    /\ lastOp = "WORecompute"
    /\ now = 1
    /\ \E a, b \in woWritten :
          /\ WOOf(woItems, a).due_on = <<2026, 1, 25>>
          /\ WOOf(woItems, a).urgency = "high"
          /\ WOOf(woItems, b).due_on = <<2026, 4, 5>>
          /\ WOOf(woItems, b).urgency = "medium"

\* C18: no operation other than a change of the due date or a recompute
\* (start-up or periodic) changes the stored urgency of a work order.
C18_UrgencyDerivedOnly ==
    [][(woMounted /\ woMounted' /\ lastOp' \notin {"dueChange", "WORecompute", "WOMount"})
       => \A id \in WOIdsOf(woItems) \cap WOIdsOf(woItems') :
             WOOf(woItems', id).urgency = WOOf(woItems, id).urgency]_vars

\* every stored urgency is the tier of its due value today
AllFresh == \A i \in 1..Len(woItems) : woItems[i].urgency = TierOf(woItems[i].due_on, now)

\* C19: while the list is open, a stored urgency that is not the tier of its
\* due date today (the clock passed a threshold) is eventually replaced by it
\* without a user operation, and right after a start every urgency is the
\* tier of its due date.
C19_StaleIsRecomputed ==
    /\ (woMounted /\ ~AllFresh) ~> (AllFresh \/ ~woMounted)
    /\ [](lastOp = "WOMount" => AllFresh)

\* after a start on day 1 and one passing day, the periodic recompute moved a
\* work order due on day 36 from medium to high
C19_Witness ==
    /\ lastOp = "WORecompute"
    /\ steps = 1
    /\ now = 2
    /\ \E id \in woWritten :
          /\ WOOf(woItems, id).due_on = <<2026, 1, 26>>
          /\ WOOf(woItems, id).urgency = "high"

\* C20: the work order addWO has just created has no due date and urgency medium.
C20_NewWorkOrderIsMedium ==
    lastOp = "addWO" => (woItems[1].due_on = NoDue /\ woItems[1].urgency = "medium")

\* the slash form of the claim: a month of one or two digits in 1..12, a day
\* of one or two digits in 1..31, a year of two or of four digits
SlashDate(t) ==
    /\ t.form = "us"
    /\ t.mw \in 1..2 /\ t.m >= 1 /\ t.m <= 12
    /\ t.dw \in 1..2 /\ t.d >= 1 /\ t.d <= 31
    /\ t.yw \in {2, 4}

\* C21: a slash date normalizes to the valid canonical date of its month and
\* day with the year 2000+YY for two digits and YYYY itself for four; a text
\* of the exact shape YYYY-MM-DD is returned unchanged as valid; normalizing
\* a returned date returns it again.
C21_NormalizeCanonical ==
    /\ (lastOp = "Normalize" /\ SlashDate(qText))
       => qNorm = Valid(<<IF qText.yw = 2 THEN 2000 + qText.y ELSE qText.y, qText.m, qText.d>>)
    /\ (lastOp = "Normalize" /\ qText.form = "iso")
       => qNorm = Valid(<<qText.y, qText.m, qText.d>>)
    /\ lastOp = "Renormalize"
       => (qNorm.valid /\ textOf(qNorm.iso) = qText)

\* C22: every text that is neither of the exact shape YYYY-MM-DD nor a slash
\* date normalizes to invalid with no canonical date.
C22_NormalizeRejects ==
    (lastOp = "Normalize" /\ qText.form # "iso" /\ ~SlashDate(qText))
    => qNorm = Invalid

\* C23: an input event of the due field whose text does not normalize to a
\* valid date leaves the work order's stored due date and urgency as they were.
C23_InvalidDueRejected ==
    [][\A id \in WOIdsOf(woItems), input \in WOInputs :
          (dueChange(id, input) /\ ~toISOIfPossible(input).valid)
          => (/\ WOOf(woItems', id).due_on = WOOf(woItems, id).due_on
              /\ WOOf(woItems', id).urgency = WOOf(woItems, id).urgency)]_vars

\* C24: every record of an open list has a recognized tier: each task a
\* priority in {high, medium, low}, each work order an urgency in
\* {low, medium, high}, whatever the storage held.
C24_TiersRecognized ==
    /\ mounted => \A i \in 1..Len(tasks) : tasks[i].priority \in Priorities
    /\ woMounted => \A i \in 1..Len(woItems) : woItems[i].urgency \in Urgencies

\* C25: a list that starts while its key holds text that is no JSON, or JSON
\* that is no array, starts with an empty collection.
C25_MalformedLoadsEmpty ==
    [][/\ (~mounted /\ mounted' /\ lsTasks.kind \in {"garbage", "other"}) => tasks' = <<>>
       /\ (~woMounted /\ lastOp' = "WOMount" /\ lsWO.kind \in {"garbage", "other"})
            => (woMounted' /\ woItems' = <<>>)]_vars

\* C26: while the store refuses writes, every handler runs as usual: the
\* stored values stay, no exception escapes a save, and no list is taken down.
C26_WriteFailureSwallowed ==
    [][(storeFails /\ storeFails')
       => /\ lsTasks' = lsTasks /\ lsLastClean' = lsLastClean /\ lsWO' = lsWO
          /\ ~woError'
          /\ (mounted /\ lastOp' # "Unmount") => mounted'
          /\ (woMounted /\ lastOp' # "WOUnmount") => woMounted']_vars

\* C28: addInlineTask puts one new record at the head of the collection, the
\* others behind it as they were: priority high, not done, due today with the
\* key "today", nothing staged; the new record is the pinned one and the one
\* being edited.
C28_NewTaskAtHead ==
    [][lastOp' = "addInlineTask"
       => /\ Len(tasks') = Len(tasks) + 1
          /\ Tail(tasks') = tasks
          /\ tasks'[1].id \notin IdsOf(tasks)
          /\ tasks'[1].priority = "high"
          /\ tasks'[1].done = FALSE
          /\ tasks'[1].dueISO = toISODate(now)
          /\ tasks'[1].dueKey = KeyToday
          /\ tasks'[1].pendingDueISO = NoISO
          /\ tasks'[1].pendingDueKey = NoKey
          /\ pinned' = tasks'[1].id
          /\ editingId' = tasks'[1].id]_vars

\* a record was added on a later day in front of an older one that is due earlier
C28_Witness ==
    /\ lastOp = "addInlineTask"
    /\ Len(tasks) = 2
    /\ pinned = tasks[1].id
    /\ tasks[1].dueISO = toISODate(now)
    /\ tasks[2].dueISO # toISODate(now)

\* C29: for every option of buildDueOptions(now), the key computeKeyForISO
\* gives its date is the option's key and the group label of its date is the
\* option's bare label.
C29_ResolverAgreesWithOptions ==
    lastOp = "Resolve"
    => \A i \in 1..Len(qOpts) :
          /\ computeKeyForISO(qOpts[i].iso, now) = qOpts[i].key
          /\ computeGroupLabelForISO(qOpts[i].iso, now) = qOpts[i].label[1]

\* C30: a prune (at start or by the midnight timer) removes no record whose
\* staged due date is today or later.
C30_PruneSparesStagedFuture ==
    [][lastOp' \in {"Mount", "MidnightTick"}
       => \A id \in removed' :
             LET t == TaskOf(IF mounted THEN tasks ELSE initialTasks(impl, lsTasks, now), id)
             IN  ~(t.pendingDueISO # NoISO /\ ISOGeq(t.pendingDueISO, toISODate(now')))]_vars

\* the updaters of a queue one after another, each on the result of the one before
RECURSIVE TasksInOrder(_, _)
TasksInOrder(queue, prev) ==
    IF queue = <<>> THEN prev ELSE TasksInOrder(Tail(queue), taskUpdater(Head(queue), prev))

RECURSIVE WOInOrder(_, _, _)
WOInOrder(queue, prev, clock) ==
    IF queue = <<>> THEN prev ELSE WOInOrder(Tail(queue), woUpdater(Head(queue), prev, clock), clock)

\* where the queue has an updater of this kind for this id
Calls(queue, op, id) == {i \in 1..Len(queue) : queue[i].op = op /\ queue[i].id = id}
LastCall(queue, op, id) == CHOOSE i \in Calls(queue, op, id) : \A j \in Calls(queue, op, id) : j <= i
DuePatches(queue, id) == {i \in Calls(queue, "updateWO", id) : queue[i].patch.hasDue}

\* C27: whatever handlers and timer callbacks ran before a render, in whatever
\* order, the render leaves the collection that results from applying each of
\* them in turn to the latest collection, and no update is lost: a removed
\* record is gone, a surviving record's done flag has flipped once per toggle,
\* its priority is the last one set, a surviving work order's due date is the
\* last one entered.
C27_NoLostUpdate ==
    [][lastOp' = "Render"
       => /\ tasks' = TasksInOrder(taskQueue, tasks)
          /\ woItems' = WOInOrder(woQueue, woItems, now)
          /\ \A id \in IdsOf(tasks) :
                IF id \notin IdsOf(tasks')
                THEN Calls(taskQueue, "remove", id) # {} \/ Calls(taskQueue, "prune", NoId) # {}
                ELSE /\ Calls(taskQueue, "remove", id) = {}
                     /\ TaskOf(tasks', id).done
                          = (TaskOf(tasks, id).done
                               = (Cardinality(Calls(taskQueue, "toggleDone", id)) % 2 = 0))
                     /\ Calls(taskQueue, "setPriorityFor", id) # {}
                          => TaskOf(tasks', id).priority
                               = taskQueue[LastCall(taskQueue, "setPriorityFor", id)].priority
          /\ \A id \in WOIdsOf(woItems) :
                IF id \notin WOIdsOf(woItems')
                THEN Calls(woQueue, "removeWO", id) # {}
                ELSE /\ Calls(woQueue, "removeWO", id) = {}
                     /\ DuePatches(woQueue, id) # {}
                          => WOOf(woItems', id).due_on
                               = woQueue[CHOOSE i \in DuePatches(woQueue, id) :
                                            \A j \in DuePatches(woQueue, id) : j <= i].patch.due_on]_vars

\* before one render the user has undone a finished record of yesterday and the
\* midnight callback has pruned: both updaters wait, made from the same rendered
\* collection
C27_Witness ==
    /\ Len(taskQueue) = 2
    /\ taskQueue[1].op = "toggleDone"
    /\ taskQueue[2].op = "prune"
    /\ taskQueue[1].seen = taskQueue[2].seen
    /\ TaskOf(tasks, taskQueue[1].id).done
    /\ TaskOf(tasks, taskQueue[1].id).dueISO # toISODate(now)

\* C31: when the notes field of a record other than the pinned one loses
\* focus, the pin stays and the pinned record keeps its due date and its staged
\* due date.
C31_OtherBlurKeepsPinned ==
    [][\A id \in IdsOf(tasks) :
          (pinned \in IdsOf(tasks) /\ id # pinned /\ notesBlur(id))
          => /\ pinned' = pinned
             /\ TaskOf(tasks', pinned).dueISO = TaskOf(tasks, pinned).dueISO
             /\ TaskOf(tasks', pinned).dueKey = TaskOf(tasks, pinned).dueKey
             /\ TaskOf(tasks', pinned).pendingDueISO = TaskOf(tasks, pinned).pendingDueISO
             /\ TaskOf(tasks', pinned).pendingDueKey = TaskOf(tasks, pinned).pendingDueKey]_vars

\* C32: once the midnight callback that is due has run, every record's stored
\* dueKey is the key computeKeyForISO gives its dueISO on the current day.
C32_StoredKeyFollowsDate ==
    (mounted /\ ~(timerArmed /\ now >= timerDay))
    => \A i \in 1..Len(tasks) : tasks[i].dueKey = computeKeyForISO(tasks[i].dueISO, now)

\* C33: at any moment of an open list, a reload would start from exactly the
\* current collection: what the initialiser makes of the stored value is the
\* collection that was saved, the empty collection included.
C33_ReloadRestoresSaved ==
    mounted => initialTasks(impl, lsTasks, now) = tasks

\* the rows of all groups, top to bottom
RECURSIVE AllRows(_)
AllRows(groups) == IF groups = <<>> THEN <<>> ELSE Head(groups).rows \o AllRows(Tail(groups))

\* C34: the rows of all rendered groups together hold every record of the
\* collection exactly once and nothing else.
C34_RenderedOnce ==
    mounted
    => /\ Len(AllRows(shown)) = Len(tasks)
       /\ \A id \in IdsOf(tasks) :
             Cardinality({i \in 1..Len(AllRows(shown)) : AllRows(shown)[i] = id}) = 1

\* two groups are shown; the pinned record has a staged date and is not the
\* first of the collection, another record is done
C34_Witness ==
    /\ mounted
    /\ Len(shown) = 2
    /\ pinned \in IdsOf(tasks)
    /\ TaskOf(tasks, pinned).pendingDueISO # NoISO
    /\ tasks[1].id # pinned
    /\ \E i \in 1..Len(tasks) : tasks[i].done

\* C35: in the implementation whose group header reads "Oldest at top", of two
\* unpinned records of equal priority in one group (in "Today", one part) the
\* one created earlier is rendered above the one created later. Every record
\* there is created by addInlineTask at the head of the collection, so the
\* record further back in the collection is the older one.
C35_OldestAtTop ==
    (mounted /\ impl = "B")
    => \A a \in IdsOf(tasks), b \in IdsOf(tasks) :
          (TiedPair(tasks, shown, pinned, a, b) /\ PosIn(tasks, a) > PosIn(tasks, b))
          => RowOf(shown, a) < RowOf(shown, b)

\* C36: the pinned id, when set, is the id of a record of the collection.
C36_PinnedIsPresent ==
    pinned # NoId => pinned \in IdsOf(tasks)

\* the options the weekday loop pushes
LoopOpts(opts) == SelectSeq(opts, LAMBDA o : o.key.kind = "wd")

\* C37: on every day buildDueOptions returns between 2 and 6 options with
\* pairwise distinct keys, the first "today" and the last "next-mon"; its
\* weekday loop runs at most three times, over consecutive days from the day
\* after tomorrow, and stops with the cursor on a Saturday.
C37_OptionsBounded ==
    lastOp = "Resolve"
    => /\ Len(qOpts) >= 2 /\ Len(qOpts) <= 6
       /\ \A i, j \in 1..Len(qOpts) : i # j => qOpts[i].key # qOpts[j].key
       /\ qOpts[1].key = KeyToday
       /\ qOpts[Len(qOpts)].key = KeyNextMon
       /\ Len(LoopOpts(qOpts)) <= 3
       /\ \A i \in 1..Len(LoopOpts(qOpts)) : LoopOpts(qOpts)[i].iso = toISODate(now + 1 + i)
       /\ getDay(now) \in 1..4 => getDay(now + 2 + Len(LoopOpts(qOpts))) = 6

\* the options of a Monday: the longest list, the loop has run three times
C37_Witness ==
    /\ lastOp = "Resolve"
    /\ getDay(now) = 1
    /\ Len(qOpts) = 6
    /\ Len(LoopOpts(qOpts)) = 3

====
